---- MODULE Spec2Model ----
(***************************************************************************)
(* A model of the Exact Sciences data-product connector                    *)
(* (metadata-ingestion/src/datahub/api/entities/dataproduct/               *)
(* es_dataproduct.py): the derivation of glossary-term identities from a   *)
(* property URI, the normalisation of schema properties, the flattening    *)
(* of custom properties, and the lazy generator generate_mcp with its      *)
(* existence checks against the catalog.                                   *)
(*                                                                         *)
(* Strings whose characters matter (URIs, term paths) are sequences of     *)
(* one-character strings; all other strings are TLA+ strings.              *)
(***************************************************************************)
EXTENDS Integers, Sequences, FiniteSets, TLC

\* ------------------------------------------------------------------ bounds
MaxUriLen == 5      \* characters after the optional "h://o" prefix of a URI
MaxPorts == 2       \* output ports of a data product
MaxProps == 2       \* keys of schema.properties
MaxTime == 1        \* clock values are 0..MaxTime

\* ----------------------------------------------------------------- strings
\* Characters that occur in the URIs of the model.  "h", "o", "a", "b" are
\* letters, "[" is the character that makes urlsplit reject a network
\* location.
Letters == {"h", "o", "a", "b"}
BodyChars == {"/", "a", "b", "["}

RECURSIVE SeqsUpTo(_, _)
SeqsUpTo(S, n) ==
    IF n = 0 THEN {<<>>}
    ELSE LET shorter == SeqsUpTo(S, n - 1)
         IN shorter \cup {Append(s, c) : s \in {t \in shorter : Len(t) = n - 1}, c \in S}

HttpPrefix == <<"h", ":", "/", "/", "o">>

\* The property URIs the model draws from: with and without scheme and host.
Uris == {pre \o body : pre \in {<<>>, HttpPrefix}, body \in SeqsUpTo(BodyChars, MaxUriLen)}

\* str.find(c): position of the first c in s (1-based), 0 when there is none.
Find(s, c) ==
    IF \E k \in 1..Len(s) : s[k] = c
    THEN CHOOSE k \in 1..Len(s) : s[k] = c /\ \A m \in 1..(k - 1) : s[m] # c
    ELSE 0

\* s[from:], 1-based.
Drop(s, from) == SubSeq(s, from, Len(s))

\* str.strip("/")
RECURSIVE LStrip(_)
LStrip(s) == IF s # <<>> /\ Head(s) = "/" THEN LStrip(Tail(s)) ELSE s

RECURSIVE RStrip(_)
RStrip(s) ==
    IF s # <<>> /\ s[Len(s)] = "/" THEN RStrip(SubSeq(s, 1, Len(s) - 1)) ELSE s

Strip(s) == RStrip(LStrip(s))

\* str.split("/")
RECURSIVE Split(_)
Split(s) ==
    LET k == Find(s, "/")
    IN IF k = 0 THEN <<s>>
       ELSE <<SubSeq(s, 1, k - 1)>> \o Split(Drop(s, k + 1))

\* str.replace("/", "_")
Replace(s) == [k \in 1..Len(s) |-> IF s[k] = "/" THEN "_" ELSE s[k]]

\* ------------------------------------------------------ urllib.parse.urlparse
\* urlsplit: a leading scheme "letters:" is removed; if the rest starts with
\* "//" the network location runs to the next "/" and the path is what
\* follows; a "[" without "]" in the network location raises ValueError.
\* The model's alphabet has no "?", "#" or ";", so the path is the rest.
UrlNoScheme(url) ==
    LET i == Find(url, ":")
    IN IF i > 1 /\ \A k \in 1..(i - 1) : url[k] \in Letters
       THEN Drop(url, i + 1)
       ELSE url

UrlHasNetloc(url) ==
    LET u == UrlNoScheme(url) IN Len(u) >= 2 /\ u[1] = "/" /\ u[2] = "/"

\* What follows the "//" of a URL with a network location.
UrlAfterSlashes(url) == Drop(UrlNoScheme(url), 3)

UrlNetloc(url) ==
    LET r == UrlAfterSlashes(url)
        k == Find(r, "/")
    IN IF k = 0 THEN r ELSE SubSeq(r, 1, k - 1)

UrlRaises(url) ==
    /\ UrlHasNetloc(url)
    /\ \E k \in 1..Len(UrlNetloc(url)) : UrlNetloc(url)[k] = "["
    /\ \A k \in 1..Len(UrlNetloc(url)) : UrlNetloc(url)[k] # "]"

UrlPath(url) ==
    IF UrlHasNetloc(url)
    THEN LET r == UrlAfterSlashes(url)
             k == Find(r, "/")
         IN IF k = 0 THEN <<>> ELSE Drop(r, k)
    ELSE UrlNoScheme(url)

\* ------------------------------------------------------------ mce_builder
make_term_urn(term) == <<"glossaryTerm", term>>
make_domain_urn(domain) == <<"domain", domain>>
make_dataset_urn(platform, name, env) == <<"dataset", <<platform, name, env>>>>

\* -------------------------------------------------------- EsSchemaProperty
\* A schema property is a record with fields name, type and property_uri.
get_term(p) ==
    IF UrlRaises(p.property_uri) THEN p.property_uri
    ELSE Strip(UrlPath(p.property_uri))

get_term_name(p) == LET parts == Split(get_term(p)) IN parts[Len(parts)]

get_term_browse_path(p) ==
    LET parts == Split(get_term(p)) IN SubSeq(parts, 1, Len(parts) - 1)

\* The term urn of the last path segment alone.
get_term_urn_last_segment(p) == make_term_urn(Replace(get_term_name(p)))

get_term_urn(p) == make_term_urn(Replace(get_term(p)))

\* ---------------------------------------------------------- _EsOutputPorts
\* An output port is a record with fields type, description and details
\* (catalog, schema, table, env).
get_fully_qualified_name(port) ==
    port.details.catalog \o "." \o port.details.schema \o "." \o port.details.table

get_urn(port) ==
    make_dataset_urn("databricks", get_fully_qualified_name(port), port.details.env)

\* ----------------------------------------------------------- _EsDataProduct
\* The parsed document, self.dict(by_alias=True): a record keyed by the
\* aliases of the declared fields.
FieldAliases ==
    {"dataProductId", "name", "description", "version", "domain",
     "dataAlignmentType", "sourceSystems", "processing", "framework",
     "dataContract", "SLAs", "useCases", "subjectMatterExperts",
     "countryOfOrigin", "dataClassification", "complianceRequirements",
     "acceptableUse", "createdBy", "lastModified", "updateFrequency",
     "outputPorts", "schema"}

\* The fields declared List[str].
ListFields ==
    {"sourceSystems", "useCases", "subjectMatterExperts", "countryOfOrigin",
     "complianceRequirements"}

\* str(v) of a list of strings: "['a', 'b']".
RECURSIVE ListItems(_)
ListItems(l) ==
    IF l = <<>> THEN ""
    ELSE "'" \o Head(l) \o "'" \o (IF Len(l) > 1 THEN ", " ELSE "") \o ListItems(Tail(l))

PyStr(k, v) == IF k \in ListFields THEN "[" \o ListItems(v) \o "]" ELSE v

ExcludedKeys == {"schema", "outputPorts", "dataProductId"}

\* The flattening with "dataProductId" left out of the filter.
custom_properties_keeping_id(d) ==
    [k \in FieldAliases \ {"schema", "outputPorts"} |-> PyStr(k, d[k])]

get_data_product_custom_properties(d) ==
    [k \in FieldAliases \ ExcludedKeys |-> PyStr(k, d[k])]

\* re.sub(r"\W+", "_", s): every maximal run of non-word characters becomes
\* one "_".
IsWord(c) == c \in Letters \cup {"_"}

RECURSIVE Sanitize(_)
Sanitize(s) ==
    IF s = <<>> THEN <<>>
    ELSE IF IsWord(Head(s)) THEN <<Head(s)>> \o Sanitize(Tail(s))
    ELSE IF Len(s) > 1 /\ ~IsWord(s[2]) THEN Sanitize(Tail(s))
    ELSE <<"_">> \o Sanitize(Tail(s))

get_data_product_urn(d) ==
    <<"dataProduct",
      Sanitize(IF UrlRaises(d.dataProductId) THEN d.dataProductId
               ELSE Strip(UrlPath(d.dataProductId)))>>

get_data_product_domain_urn(d) == make_domain_urn(d.domain)

get_data_product_dataset_urns(d) ==
    [k \in 1..Len(d.outputPorts) |-> get_urn(d.outputPorts[k])]

make_owner_urn(user) == <<"corpuser", user>>

get_data_product_owners(d) ==
    [k \in 1..Len(d.subjectMatterExperts) |-> make_owner_urn(d.subjectMatterExperts[k])]

\* get_data_product_schema_properties: the list comprehension over
\* schema.properties, in the order of its keys, looking each key up in
\* schema.x_context; a missing key raises KeyError and no list is built.
\* The result is [raised |-> FALSE, list |-> ...] or [raised |-> TRUE].
KeyError == [raised |-> TRUE]

Returned(l) == [raised |-> FALSE, list |-> l]

RECURSIVE JoinProperties(_, _)
JoinProperties(properties, x_context) ==
    IF properties = <<>> THEN Returned(<<>>)
    ELSE LET p == Head(properties)
         IN IF p.name \notin DOMAIN x_context THEN KeyError
            ELSE LET rest == JoinProperties(Tail(properties), x_context)
                 IN IF rest.raised THEN KeyError
                    ELSE Returned(<<[name |-> p.name,
                                     type |-> p.type,
                                     property_uri |-> x_context[p.name].propertyUri]>>
                                  \o rest.list)

RECURSIVE JoinPropertiesSkipping(_, _)
JoinPropertiesSkipping(properties, x_context) ==
    IF properties = <<>> THEN Returned(<<>>)
    ELSE LET p == Head(properties)
             rest == JoinPropertiesSkipping(Tail(properties), x_context)
         IN IF p.name \notin DOMAIN x_context THEN rest
            ELSE Returned(<<[name |-> p.name,
                             type |-> p.type,
                             property_uri |-> x_context[p.name].propertyUri]>>
                          \o rest.list)

\* The normalisation that skips a property without annotation.
schema_properties_skipping(d) ==
    IF d.schema.is_none THEN Returned(<<>>)
    ELSE JoinPropertiesSkipping(d.schema.properties, d.schema.x_context)

get_data_product_schema_properties(d) ==
    IF d.schema.is_none THEN Returned(<<>>)
    ELSE JoinProperties(d.schema.properties, d.schema.x_context)

\* get_data_product_schema_properties_patched: a copy of each property with
\* its URI rewritten to the catalog link of its term.
CatalogLink == <<"http://localhost:9002/glossaryTerm/">>

get_data_product_schema_properties_patched(d) ==
    LET r == get_data_product_schema_properties(d)
    IN IF r.raised THEN KeyError
       ELSE Returned([k \in 1..Len(r.list) |->
                [r.list[k] EXCEPT !.property_uri = CatalogLink \o get_term_urn(r.list[k])]])

\* ------------------------------------------------------------------ inputs
Tables == {"t1", "t2"}

OutputPort(t) ==
    [type |-> "table", description |-> "",
     details |-> [catalog |-> "c", schema |-> "s", table |-> t, env |-> "PROD"]]

\* The tables of a document are named in the order of their first use.
PortLists ==
    {[k \in 1..Len(ts) |-> OutputPort(ts[k])] :
        ts \in {t \in SeqsUpTo(Tables, MaxPorts) : t # <<>> => t[1] = "t1"}}

PropNames == {"age", "email", "id"}

\* Two property URIs with the same last path segment and different paths.
UriAB == HttpPrefix \o <<"/", "a", "/", "b">>
UriBB == HttpPrefix \o <<"/", "b", "/", "b">>
GenUris == {UriAB, UriBB}

Annotation(u) == [propertyUri |-> u]

PropertiesOf(ns) == [k \in 1..Len(ns) |-> [name |-> ns[k], type |-> "string"]]

\* The keys of a dict are distinct; properties keeps their insertion order.
PropertyLists ==
    {PropertiesOf(ns) :
        ns \in {t \in SeqsUpTo(PropNames, MaxProps) :
                    \A a, b \in 1..Len(t) : a # b => t[a] # t[b]}}

\* The property lists of the documents the generator is run on: the first
\* keys of one document, in its (unsorted) order.
KeyOrder == <<"id", "email", "age">>

GenPropertyLists ==
    {PropertiesOf(SubSeq(KeyOrder, 1, n)) : n \in 0..MaxProps} \cap PropertyLists

NamesOf(properties) == {properties[k].name : k \in 1..Len(properties)}

NoneSchema == [is_none |-> TRUE]

\* The schemas over the property lists `lists`: x-context annotates any
\* subset of the keys, the key n with a URI of UrisOf[n].
SchemasOver(lists, UrisOf) ==
    {NoneSchema} \cup
    UNION {UNION {{[is_none |-> FALSE, properties |-> ps, x_context |-> xc] :
                      xc \in {f \in [K -> {Annotation(u) : u \in GenUris}] :
                                 \A n \in K : f[n].propertyUri \in UrisOf[n]}} :
                  K \in SUBSET NamesOf(ps)} :
           ps \in lists}

AnyUri == [n \in PropNames |-> GenUris]

Schemas == SchemasOver(PropertyLists, AnyUri)

\* In the documents the generator is run on, the first key is annotated
\* with UriAB, the second with either URI (the same term as the first, or
\* another), a third with UriBB.
GenUrisOf ==
    [n \in PropNames |->
        IF n = "id" THEN {UriAB} ELSE IF n = "email" THEN GenUris ELSE {UriBB}]

GenSchemas == SchemasOver(GenPropertyLists, GenUrisOf)

Document(ports, schema) ==
    [dataProductId |-> HttpPrefix \o <<"/", "a", "/", "[", "[", "b">>,
     name |-> "Orders", description |-> "orders", version |-> "1",
     domain |-> "sales", dataAlignmentType |-> "source",
     sourceSystems |-> <<"erp", "crm">>, processing |-> "batch",
     framework |-> "spark", dataContract |-> "none", SLAs |-> "daily",
     useCases |-> <<"reporting">>, subjectMatterExperts |-> <<"ann">>,
     countryOfOrigin |-> <<>>, dataClassification |-> "internal",
     complianceRequirements |-> <<"gdpr">>, acceptableUse |-> "any",
     createdBy |-> "bob", lastModified |-> "2024", updateFrequency |-> "daily",
     outputPorts |-> ports, schema |-> schema]

DataProducts == {Document(ports, schema) : ports \in PortLists, schema \in GenSchemas}

\* ------------------------------------------------------------------- state
VARIABLES
    dp,        \* the parsed data product (immutable after parse)
    pc,        \* where the generator generate_mcp is suspended
    i,         \* index of the output port the dataset loop is at
    j,         \* index of the property the term loop is at
    props,     \* the list the term loop iterates
    pending,   \* the record yielded and not yet taken by the caller
    out,       \* the records the caller has taken, in order
    log,       \* the graph.exists queries made, with their answers
    now,       \* time.time()
    run,       \* 1 for the first invocation, 2 for the second
    prev,      \* the records of the first invocation
    prevLog,   \* the queries and answers of the first invocation
    catalog,   \* the entities present in the catalog
    prop,      \* a schema property whose term identity is derived
    derived    \* the term name, browse path and urn derived from prop

vars == <<dp, pc, i, j, props, pending, out, log, now, run, prev, prevLog,
          catalog, prop, derived>>

genvars == <<pc, i, j, props, pending, log>>

termvars == <<prop, derived>>

NoProp == [name |-> "", type |-> "", property_uri |-> <<>>]

\* --------------------------------------------------------- change records
DomainPropertiesRecord(d) ==
    [aspect |-> "domainProperties", urn |-> get_data_product_domain_urn(d),
     name |-> d.domain]

DatasetPropertiesRecord(d, port) ==
    [aspect |-> "datasetProperties", urn |-> get_urn(port),
     name |-> get_fully_qualified_name(port),
     customProperties |-> get_data_product_custom_properties(d)]

\* The stamp with the time written to the message.
mint_auditstamp_time_in_message(t, message) ==
    [time |-> 0, actor |-> "urn:li:corpuser:datahub", message |-> t]

_mint_auditstamp(t, message) ==
    [time |-> t, actor |-> "urn:li:corpuser:datahub", message |-> message]

SchemaField(p, t) ==
    [fieldPath |-> p.name, nativeDataType |-> p.type,
     glossaryTerms |-> [terms |-> <<get_term_urn(p)>>,
                        auditStamp |-> _mint_auditstamp(t, "json")]]

SchemaMetadataRecord(port, list, t) ==
    [aspect |-> "schemaMetadata", urn |-> get_urn(port),
     schemaName |-> "schema_" \o get_fully_qualified_name(port),
     fields |-> [k \in 1..Len(list) |-> SchemaField(list[k], t)]]

GlossaryTermRecord(p) ==
    [aspect |-> "glossaryTermSnapshot", urn |-> get_term_urn(p),
     name |-> get_term_name(p), paths |-> get_term_browse_path(p)]

TermDomainsRecord(d, p) ==
    [aspect |-> "domains", urn |-> get_term_urn(p),
     domains |-> <<get_data_product_domain_urn(d)>>]

DataProductPropertiesRecord(d) ==
    [aspect |-> "dataProductProperties", urn |-> get_data_product_urn(d),
     name |-> d.name, description |-> d.description,
     assets |-> get_data_product_dataset_urns(d),
     customProperties |-> get_data_product_custom_properties(d)]

DataProductDomainsRecord(d) ==
    [aspect |-> "domains", urn |-> get_data_product_urn(d),
     domains |-> <<get_data_product_domain_urn(d)>>]

OwnershipRecord(d) ==
    [aspect |-> "ownership", urn |-> get_data_product_urn(d),
     owners |-> get_data_product_owners(d)]

StatusRecord(d) ==
    [aspect |-> "status", urn |-> get_data_product_urn(d), removed |-> FALSE]

SchemaBlobRecord(d, list) ==
    [aspect |-> "esDataProductSchema", urn |-> get_data_product_urn(d),
     contentType |-> "application/json", value |-> list]

\* -------------------------------------------------------------- the oracle
Query(urn, ans) == log' = Append(log, [urn |-> urn, ans |-> ans])

\* An oracle of its own: any answer in the first invocation; the second
\* invocation is given the answers of the first, query by query.
SameAnswer(ans) ==
    IF run = 1 \/ Len(log) >= Len(prevLog) THEN TRUE
    ELSE ans = prevLog[Len(log) + 1].ans

\* DataHubGraph.exists against the catalog the caller emits to.
exists(urn) == urn \in catalog

\* DataHubGraph.emit: the entity a record targets exists from then on.
emit(record) == catalog \cup {record.urn}

\* ----------------------------------------------------- generate_mcp, steps
\* The domain step with the condition inverted.
domain_mcp_if_exists(ans) ==
    /\ pc = "domain" /\ pending = <<>>
    /\ Query(get_data_product_domain_urn(dp), ans)
    /\ pending' = IF ans THEN <<DomainPropertiesRecord(dp)>> ELSE <<>>
    /\ pc' = "datasets"
    /\ i' = 1
    /\ UNCHANGED <<j, props>>

\* generate_domain_mcp_if_not_exists
generate_domain_mcp_if_not_exists(ans) ==
    /\ pc = "domain" /\ pending = <<>>
    /\ Query(get_data_product_domain_urn(dp), ans)
    /\ pending' = IF ans THEN <<>> ELSE <<DomainPropertiesRecord(dp)>>
    /\ pc' = "datasets"
    /\ i' = 1
    /\ UNCHANGED <<j, props>>

\* The dataset step that creates the dataset whatever the answer.
DatasetAlwaysCreated(ans) ==
    /\ pc = "datasets" /\ pending = <<>>
    /\ i <= Len(dp.outputPorts)
    /\ Query(get_urn(dp.outputPorts[i]), ans)
    /\ pending' = <<DatasetPropertiesRecord(dp, dp.outputPorts[i])>>
    /\ pc' = "schema_metadata"
    /\ UNCHANGED <<i, j, props>>

\* generate_datasets_mcps_if_not_exists: the check of one output port and,
\* when the dataset is absent, its dataset-properties record.
DatasetExists(ans) ==
    /\ pc = "datasets" /\ pending = <<>>
    /\ i <= Len(dp.outputPorts)
    /\ Query(get_urn(dp.outputPorts[i]), ans)
    /\ IF ans
       THEN /\ i' = i + 1
            /\ UNCHANGED <<pc, pending>>
       ELSE /\ pending' = <<DatasetPropertiesRecord(dp, dp.outputPorts[i])>>
            /\ pc' = "schema_metadata"
            /\ UNCHANGED i
    /\ UNCHANGED <<j, props>>

\* The dataset step that leaves the schema-metadata record out.
SkipSchemaMetadata ==
    /\ pc = "schema_metadata" /\ pending = <<>>
    /\ pc' = "datasets"
    /\ i' = i + 1
    /\ UNCHANGED <<j, props, pending, log>>

\* The schema-metadata record of an absent dataset; building its fields
\* normalises the schema properties. The fields of one record are stamped
\* within one step.
YieldSchemaMetadata ==
    /\ pc = "schema_metadata" /\ pending = <<>>
    /\ LET r == get_data_product_schema_properties(dp)
       IN IF r.raised
          THEN /\ pc' = "raised"
               /\ UNCHANGED <<pending, i>>
          ELSE /\ pending' = <<SchemaMetadataRecord(dp.outputPorts[i], r.list, now)>>
               /\ pc' = "datasets"
               /\ i' = i + 1
    /\ UNCHANGED <<j, props, log>>

\* The term loop takes its list once the dataset loop has ended.
StartTerms ==
    /\ pc = "datasets" /\ pending = <<>>
    /\ i > Len(dp.outputPorts)
    /\ LET r == get_data_product_schema_properties(dp)
       IN IF r.raised
          THEN /\ pc' = "raised"
               /\ UNCHANGED <<props, j>>
          ELSE /\ props' = r.list
               /\ j' = 1
               /\ pc' = "terms"
    /\ UNCHANGED <<i, pending, log>>

\* The term step that asks the oracle once per term identity and reuses the
\* answer for a later property of the same term.
TermExistsCached(ans) ==
    /\ pc = "terms" /\ pending = <<>>
    /\ j <= Len(props)
    /\ LET urn == get_term_urn(props[j])
           asked == {k \in 1..Len(log) : log[k].urn = urn}
           known == IF asked = {} THEN ans ELSE log[CHOOSE k \in asked : TRUE].ans
       IN /\ IF asked = {} THEN Query(urn, ans) ELSE UNCHANGED log
          /\ IF known
             THEN /\ j' = j + 1
                  /\ UNCHANGED <<pc, pending>>
             ELSE /\ pending' = <<GlossaryTermRecord(props[j])>>
                  /\ pc' = "term_domains"
                  /\ UNCHANGED j
    /\ UNCHANGED <<i, props>>

\* The check of one property's term and, when absent, its definition.
TermExists(ans) ==
    /\ pc = "terms" /\ pending = <<>>
    /\ j <= Len(props)
    /\ Query(get_term_urn(props[j]), ans)
    /\ IF ans
       THEN /\ j' = j + 1
            /\ UNCHANGED <<pc, pending>>
       ELSE /\ pending' = <<GlossaryTermRecord(props[j])>>
            /\ pc' = "term_domains"
            /\ UNCHANGED j
    /\ UNCHANGED <<i, props>>

\* The term step that leaves the domain association out.
SkipTermDomains ==
    /\ pc = "term_domains" /\ pending = <<>>
    /\ pc' = "terms"
    /\ j' = j + 1
    /\ UNCHANGED <<i, props, pending, log>>

YieldTermDomains ==
    /\ pc = "term_domains" /\ pending = <<>>
    /\ pending' = <<TermDomainsRecord(dp, props[j])>>
    /\ pc' = "terms"
    /\ j' = j + 1
    /\ UNCHANGED <<i, props, log>>

\* generate_mcp after its two sub-generators have ended.
YieldDataProductProperties ==
    /\ pc = "terms" /\ pending = <<>>
    /\ j > Len(props)
    /\ pending' = <<DataProductPropertiesRecord(dp)>>
    /\ pc' = "dp_domains"
    /\ UNCHANGED <<i, j, props, log>>

YieldDataProductDomains ==
    /\ pc = "dp_domains" /\ pending = <<>>
    /\ pending' = <<DataProductDomainsRecord(dp)>>
    /\ pc' = "dp_ownership"
    /\ UNCHANGED <<i, j, props, log>>

YieldOwnership ==
    /\ pc = "dp_ownership" /\ pending = <<>>
    /\ pending' = <<OwnershipRecord(dp)>>
    /\ pc' = "dp_status"
    /\ UNCHANGED <<i, j, props, log>>

\* The status step yielding the domain association a second time.
YieldDomainsForStatus ==
    /\ pc = "dp_status" /\ pending = <<>>
    /\ pending' = <<DataProductDomainsRecord(dp)>>
    /\ pc' = "dp_blob"
    /\ UNCHANGED <<i, j, props, log>>

YieldStatus ==
    /\ pc = "dp_status" /\ pending = <<>>
    /\ pending' = <<StatusRecord(dp)>>
    /\ pc' = "dp_blob"
    /\ UNCHANGED <<i, j, props, log>>

YieldSchemaBlob ==
    /\ pc = "dp_blob" /\ pending = <<>>
    /\ LET r == get_data_product_schema_properties_patched(dp)
       IN IF r.raised
          THEN /\ pc' = "raised"
               /\ UNCHANGED pending
          ELSE /\ pending' = <<SchemaBlobRecord(dp, r.list)>>
               /\ pc' = "return"
    /\ UNCHANGED <<i, j, props, log>>

\* The generator ends: StopIteration.
Return ==
    /\ pc = "return" /\ pending = <<>>
    /\ pc' = "done"
    /\ UNCHANGED <<i, j, props, pending, log>>

\* ---------------------------------------------------------------- callers
\* A caller takes the record the generator is suspended on.
Pull ==
    /\ pending # <<>>
    /\ out' = Append(out, pending[1])
    /\ pending' = <<>>
    /\ UNCHANGED <<dp, pc, i, j, props, log, now, run, prev, prevLog, catalog, termvars>>

\* mutate: each record is emitted to the catalog before the next is pulled.
Emit ==
    /\ pending # <<>>
    /\ out' = Append(out, pending[1])
    /\ catalog' = emit(pending[1])
    /\ pending' = <<>>
    /\ UNCHANGED <<dp, pc, i, j, props, log, now, run, prev, prevLog, termvars>>

\* generate_mcp is invoked again on the same model.
Reinvoke ==
    /\ pc \in {"done", "raised"}
    /\ run = 1
    /\ run' = 2
    /\ prev' = out
    /\ prevLog' = log
    /\ out' = <<>>
    /\ log' = <<>>
    /\ pc' = "domain"
    /\ i' = 1
    /\ j' = 1
    /\ props' = <<>>
    /\ UNCHANGED <<dp, pending, now, catalog, termvars>>

\* time.time() advances. The clock is read only by _mint_auditstamp; the
\* model lets time pass between the two invocations, so that the stamps of
\* one invocation agree.
Tick ==
    /\ run = 2 /\ pc = "domain"
    /\ now < MaxTime
    /\ now' = now + 1
    /\ UNCHANGED <<dp, genvars, out, run, prev, prevLog, catalog, termvars>>

\* What a step of the generator leaves alone.
GenFrame == UNCHANGED <<dp, out, now, run, prev, prevLog, catalog, termvars>>

InitGen ==
    /\ pc = "domain"
    /\ i = 1
    /\ j = 1
    /\ props = <<>>
    /\ pending = <<>>
    /\ out = <<>>
    /\ log = <<>>
    /\ now = 0
    /\ run = 1
    /\ prev = <<>>
    /\ prevLog = <<>>

\* ------------------------------------------- Spec: an oracle of its own
Init ==
    /\ dp \in DataProducts
    /\ InitGen
    /\ catalog = {}
    /\ prop = NoProp
    /\ derived = <<>>

Next ==
    \/ \E ans \in BOOLEAN :
         SameAnswer(ans) /\ generate_domain_mcp_if_not_exists(ans) /\ GenFrame
    \/ \E ans \in BOOLEAN : SameAnswer(ans) /\ DatasetExists(ans) /\ GenFrame
    \/ YieldSchemaMetadata /\ GenFrame
    \/ StartTerms /\ GenFrame
    \/ \E ans \in BOOLEAN : SameAnswer(ans) /\ TermExists(ans) /\ GenFrame
    \/ YieldTermDomains /\ GenFrame
    \/ YieldDataProductProperties /\ GenFrame
    \/ YieldDataProductDomains /\ GenFrame
    \/ YieldOwnership /\ GenFrame
    \/ YieldStatus /\ GenFrame
    \/ YieldSchemaBlob /\ GenFrame
    \/ Return /\ GenFrame
    \/ Pull
    \/ Reinvoke
    \/ Tick

Spec == Init /\ [][Next]_vars

\* ------------------------- SpecEmit: mutate, the catalog as the oracle
\* The entities generate_mcp checks for.
CheckedUrns(d) ==
    {get_data_product_domain_urn(d)}
    \cup {get_urn(d.outputPorts[k]) : k \in 1..Len(d.outputPorts)}
    \cup (IF d.schema.is_none THEN {}
          ELSE {get_term_urn([name |-> n, type |-> "string",
                              property_uri |-> d.schema.x_context[n].propertyUri]) :
                   n \in DOMAIN d.schema.x_context})

InitEmit ==
    /\ dp \in DataProducts
    /\ InitGen
    /\ catalog \in SUBSET CheckedUrns(dp)
    /\ prop = NoProp
    /\ derived = <<>>

NextEmit ==
    \/ generate_domain_mcp_if_not_exists(exists(get_data_product_domain_urn(dp)))
         /\ GenFrame
    \/ /\ pc = "datasets" /\ i <= Len(dp.outputPorts)
       /\ DatasetExists(exists(get_urn(dp.outputPorts[i])))
       /\ GenFrame
    \/ YieldSchemaMetadata /\ GenFrame
    \/ StartTerms /\ GenFrame
    \/ /\ pc = "terms" /\ j <= Len(props)
       /\ TermExists(exists(get_term_urn(props[j])))
       /\ GenFrame
    \/ YieldTermDomains /\ GenFrame
    \/ YieldDataProductProperties /\ GenFrame
    \/ YieldDataProductDomains /\ GenFrame
    \/ YieldOwnership /\ GenFrame
    \/ YieldStatus /\ GenFrame
    \/ YieldSchemaBlob /\ GenFrame
    \/ Return /\ GenFrame
    \/ Emit
    \/ Reinvoke

SpecEmit == InitEmit /\ [][NextEmit]_vars

\* ------------------------------ SpecTerm: the term identity of a property
InitTerm ==
    /\ dp = Document(<<>>, NoneSchema)
    /\ InitGen
    /\ catalog = {}
    /\ prop \in {[name |-> "id", type |-> "string", property_uri |-> u] : u \in Uris}
    /\ derived = <<>>

Derive(key, value) ==
    /\ key \notin DOMAIN derived
    /\ derived' = [k \in DOMAIN derived \cup {key} |->
                      IF k = key THEN value ELSE derived[k]]
    /\ UNCHANGED <<dp, genvars, out, now, run, prev, prevLog, catalog, prop>>

GetTermName == Derive("termName", get_term_name(prop))

GetTermBrowsePath == Derive("browsePath", get_term_browse_path(prop))

GetTermUrn == Derive("termUrn", get_term_urn(prop))

NextTerm == GetTermName \/ GetTermBrowsePath \/ GetTermUrn

SpecTerm == InitTerm /\ [][NextTerm]_vars

\* ------------------- SpecNormalize: the normalisation of a schema alone
InitNormalize ==
    /\ dp \in {Document(<<>>, schema) : schema \in Schemas}
    /\ InitGen
    /\ catalog = {}
    /\ prop = NoProp
    /\ derived = <<>>

Normalize == Derive("properties", get_data_product_schema_properties(dp))

NormalizePatched == Derive("patched", get_data_product_schema_properties_patched(dp))

NextNormalize == Normalize \/ NormalizePatched

SpecNormalize == InitNormalize /\ [][NextNormalize]_vars

\* ================================================================ properties
\* The records yielded so far: those taken, then the one suspended on.
Yielded == out \o pending

IsPrefix(a, b) == Len(a) <= Len(b) /\ SubSeq(b, 1, Len(a)) = a

NumPorts == Len(dp.outputPorts)

NumProps == IF dp.schema.is_none THEN 0 ELSE Len(dp.schema.properties)

AllAnnotated ==
    dp.schema.is_none \/ NamesOf(dp.schema.properties) \subseteq DOMAIN dp.schema.x_context

\* The step of generate_mcp a record belongs to, read off its aspect and
\* the type of the entity it targets.
StepOf(rec) ==
    IF rec.aspect = "domainProperties" THEN "domain"
    ELSE IF rec.aspect \in {"datasetProperties", "schemaMetadata"} THEN "dataset"
    ELSE IF rec.aspect = "glossaryTermSnapshot" THEN "term"
    ELSE IF rec.aspect = "domains" /\ rec.urn[1] = "glossaryTerm" THEN "term"
    ELSE IF rec.aspect = "domains" THEN "dp_domains"
    ELSE IF rec.aspect = "dataProductProperties" THEN "dp_properties"
    ELSE rec.aspect

Position(order, step) == CHOOSE k \in 1..Len(order) : order[k] = step

InOrder(order) ==
    \A a, b \in 1..Len(Yielded) :
        a < b => Position(order, StepOf(Yielded[a])) <= Position(order, StepOf(Yielded[b]))

\* C1 as stated: the records come in the order domain, datasets,
\* data-product properties, domain association, ownership, status, schema
\* blob, glossary terms; no term record precedes a data-product record.
C1_TermsLast ==
    InOrder(<<"domain", "dataset", "dp_properties", "dp_domains", "ownership",
              "status", "esDataProductSchema", "term">>)

\* C1 amended: the records come in the order domain, datasets, glossary
\* terms, data-product properties, domain association, ownership, status,
\* schema blob; no data-product record precedes a term record.
C1_TermsBeforeDataProduct ==
    InOrder(<<"domain", "dataset", "term", "dp_properties", "dp_domains",
              "ownership", "status", "esDataProductSchema">>)

C1_Witness ==
    /\ pc = "done"
    /\ \E a, b, c \in 1..Len(out) :
          /\ a < b /\ b < c
          /\ StepOf(out[a]) = "dataset"
          /\ StepOf(out[b]) = "term"
          /\ StepOf(out[c]) = "dp_properties"
    /\ StepOf(out[1]) = "domain"
    /\ StepOf(out[Len(out)]) = "esDataProductSchema"

\* The derived identity of prop, once all of it is derived.
Segments == Append(derived.browsePath, derived.termName)

RECURSIVE Join(_, _)
Join(parts, sep) ==
    IF parts = <<>> THEN <<>>
    ELSE IF Len(parts) = 1 THEN parts[1]
    ELSE parts[1] \o <<sep>> \o Join(Tail(parts), sep)

AllDerived == DOMAIN derived = {"termName", "browsePath", "termUrn"}

\* The path of the property URI without its leading and trailing "/" (the
\* URI itself when it cannot be parsed).
TermPath ==
    IF UrlRaises(prop.property_uri) THEN prop.property_uri
    ELSE Strip(UrlPath(prop.property_uri))

\* C2 as stated: the term id of a property is the last segment of the path
\* of its URI.
C2_TermIdIsLastSegment ==
    AllDerived => derived.termUrn = <<"glossaryTerm", derived.termName>>

\* C2 amended: the term name is the last path segment and the browse path
\* the segments before it; the term id is the whole path with every "/"
\* replaced by "_", which is the last segment only if the path has one
\* segment.
C2_TermIdIsWholePath ==
    AllDerived =>
        /\ Join(Segments, "/") = TermPath
        /\ \A k \in 1..Len(Segments) : \A m \in 1..Len(Segments[k]) : Segments[k][m] # "/"
        /\ derived.termUrn = <<"glossaryTerm", Join(Segments, "_")>>
        /\ (derived.termUrn = <<"glossaryTerm", derived.termName>>) <=> (derived.browsePath = <<>>)

C2_Witness ==
    /\ AllDerived
    /\ prop.property_uri = HttpPrefix \o <<"/", "a", "/", "b", "/">>
    /\ derived.termName = <<"b">>
    /\ derived.browsePath = <<<<"a">>>>
    /\ derived.termUrn = <<"glossaryTerm", <<"a", "_", "b">>>>

DomainRecords == {k \in 1..Len(Yielded) : Yielded[k].aspect = "domainProperties"}

\* C3: if the oracle says the domain exists no domain-properties record is
\* yielded; if it says it does not, exactly one is, and it is the first
\* record.
C3_DomainIfAbsent ==
    log # <<>> =>
        /\ log[1].urn = <<"domain", dp.domain>>
        /\ log[1].ans => DomainRecords = {}
        /\ ~log[1].ans =>
              /\ DomainRecords = {1}
              /\ Yielded[1].urn = <<"domain", dp.domain>>
              /\ Yielded[1].name = dp.domain

C3_Witness ==
    /\ pc = "done"
    /\ ~log[1].ans
    /\ NumPorts = 2 /\ NumProps = 2
    /\ Len(out) > 6
    /\ DomainRecords = {1}

AllAnswersFalse == \A k \in 1..Len(log) : ~log[k].ans

\* C4: a generation that runs to its end against an oracle that answers
\* false throughout yields 1 + 2P + 5 + 2S records.
C4_Length ==
    (pc = "done" /\ AllAnswersFalse) => Len(out) = 1 + 2 * NumPorts + 5 + 2 * NumProps

C4_Witness ==
    /\ pc = "done" /\ AllAnswersFalse
    /\ NumPorts = 1 /\ NumProps = 1
    /\ Len(out) = 10

\* The aspect and target of each record of a sequence.
Targets(recs) == [k \in 1..Len(recs) |-> <<recs[k].aspect, recs[k].urn>>]

\* The create records (those of the domain, the datasets and the terms).
RECURSIVE Creates(_)
Creates(recs) ==
    IF recs = <<>> THEN <<>>
    ELSE IF StepOf(Head(recs)) \in {"domain", "dataset", "term"}
         THEN <<Head(recs)>> \o Creates(Tail(recs))
         ELSE Creates(Tail(recs))

\* What the queries call for: nothing for an answer of true; for an answer
\* of false the one record of a domain, the two of a dataset, the two of a
\* term, on the identifier asked about.
RECURSIVE CalledFor(_)
CalledFor(queries) ==
    IF queries = <<>> THEN <<>>
    ELSE LET q == Head(queries)
         IN (IF q.ans THEN <<>>
             ELSE IF q.urn[1] = "domain" THEN <<<<"domainProperties", q.urn>>>>
             ELSE IF q.urn[1] = "dataset"
                  THEN <<<<"datasetProperties", q.urn>>, <<"schemaMetadata", q.urn>>>>
             ELSE <<<<"glossaryTermSnapshot", q.urn>>, <<"domains", q.urn>>>>)
            \o CalledFor(Tail(queries))

\* C5 as stated: each checked entity contributes no record if the oracle
\* said it exists and its two consecutive records if not, however the
\* generation ends.
C5_TwoRecordsPerAbsentEntity ==
    pc \in {"done", "raised"} => Targets(Creates(out)) = CalledFor(log)

\* C5 amended: every yielded create record is one called for by a query
\* that was answered false, in the order of the queries, and a generation
\* that runs to its end has yielded all of them; one that ends in the
\* lookup error of a missing annotation has yielded a prefix of them.
C5_CreatesFollowQueries ==
    /\ IsPrefix(Targets(Creates(Yielded)), CalledFor(log))
    /\ pc = "done" => Targets(Creates(out)) = CalledFor(log)
    /\ (pc = "raised" /\ Targets(Creates(out)) # CalledFor(log)) =>
          /\ ~AllAnnotated
          /\ Len(CalledFor(log)) = Len(Creates(out)) + 1
          /\ out[Len(out)].aspect = "datasetProperties"

C5_Witness ==
    /\ pc = "done"
    /\ NumPorts = 2 /\ NumProps = 2
    /\ ~log[2].ans /\ log[3].ans /\ log[4].ans /\ ~log[5].ans
    /\ Len(Creates(out)) >= 4

\* C6: if a key of properties has no annotation, normalisation raises and
\* returns no list; otherwise it returns one record per key, in the order
\* of the keys, each joined with the annotation of its key.
C6_NormalizeAllOrNothing ==
    ("properties" \in DOMAIN derived /\ ~dp.schema.is_none) =>
        LET r == derived.properties
            ps == dp.schema.properties
            xc == dp.schema.x_context
        IN IF \E k \in 1..Len(ps) : ps[k].name \notin DOMAIN xc
           THEN r.raised /\ DOMAIN r = {"raised"}
           ELSE /\ ~r.raised
                /\ Len(r.list) = Len(ps)
                /\ \A k \in 1..Len(ps) :
                      /\ r.list[k].name = ps[k].name
                      /\ r.list[k].type = ps[k].type
                      /\ r.list[k].property_uri = xc[ps[k].name].propertyUri

C6_Witness ==
    /\ "properties" \in DOMAIN derived
    /\ ~dp.schema.is_none
    /\ Len(dp.schema.properties) = 2
    /\ dp.schema.properties[1].name \in DOMAIN dp.schema.x_context
    /\ dp.schema.properties[2].name \notin DOMAIN dp.schema.x_context
    /\ derived.properties.raised

\* The identifiers generate_mcp asks about, in order: the domain, the
\* dataset of each output port, the term of each property.
TermUrnOfKey(k) ==
    LET n == dp.schema.properties[k].name
    IN get_term_urn([name |-> n, type |-> "string",
                     property_uri |-> dp.schema.x_context[n].propertyUri])

ExpectedQueries ==
    <<<<"domain", dp.domain>>>>
    \o [k \in 1..NumPorts |-> get_urn(dp.outputPorts[k])]
    \o (IF AllAnnotated THEN [k \in 1..NumProps |-> TermUrnOfKey(k)] ELSE <<>>)

Asked == [k \in 1..Len(log) |-> log[k].urn]

\* C7: the oracle is asked about the domain, then each output port in
\* order, then each property in order, once each and nothing else; a
\* generation that runs to its end has asked 1 + P + S times.
C7_OneQueryPerEntity ==
    /\ IsPrefix(Asked, ExpectedQueries)
    /\ pc = "done" => (Asked = ExpectedQueries /\ Len(log) = 1 + NumPorts + NumProps)

C7_Witness ==
    /\ pc = "done"
    /\ NumPorts = 2 /\ NumProps = 2
    /\ Len(log) = 5
    /\ log[4].urn = log[5].urn
    /\ log[2].urn = log[3].urn

\* C8: the custom properties of a data-product-properties or
\* dataset-properties record have a key for every declared top-level field
\* but schema, outputPorts and dataProductId, each with the string of its
\* value.
C8_CustomProperties ==
    \A k \in 1..Len(Yielded) :
        Yielded[k].aspect \in {"dataProductProperties", "datasetProperties"} =>
            LET cp == Yielded[k].customProperties
            IN /\ DOMAIN cp \cap {"schema", "outputPorts", "dataProductId"} = {}
               /\ DOMAIN cp \cup {"schema", "outputPorts", "dataProductId"} = DOMAIN dp
               /\ \A f \in DOMAIN cp \ ListFields : cp[f] = dp[f]
               /\ cp.sourceSystems = "['erp', 'crm']"
               /\ cp.countryOfOrigin = "[]"
               /\ cp.useCases = "['reporting']"
               /\ cp.subjectMatterExperts = "['ann']"
               /\ cp.complianceRequirements = "['gdpr']"

C8_Witness ==
    /\ pc = "done"
    /\ \E a, b \in 1..Len(out) :
          /\ out[a].aspect = "datasetProperties"
          /\ out[b].aspect = "dataProductProperties"
          /\ out[a].customProperties = out[b].customProperties
          /\ Cardinality(DOMAIN out[b].customProperties) = 19

SecondRunEnded == run = 2 /\ pc \in {"done", "raised"} /\ log = prevLog

\* C9 as stated: two invocations on the same model whose queries get the
\* same answers yield identical sequences of records.
C9_SameRecords == SecondRunEnded => out = prev

\* A record with the time of its audit stamps set to 0.
WithoutTime(rec) ==
    IF rec.aspect = "schemaMetadata"
    THEN [rec EXCEPT !.fields =
             [k \in 1..Len(rec.fields) |->
                 [rec.fields[k] EXCEPT !.glossaryTerms.auditStamp.time = 0]]]
    ELSE rec

TimesErased(recs) == [k \in 1..Len(recs) |-> WithoutTime(recs[k])]

\* C9 amended: the two sequences are identical but for the time of the
\* audit stamps in the schema-metadata records.
C9_SameRecordsButStampTime ==
    SecondRunEnded => TimesErased(out) = TimesErased(prev)

C9_Witness ==
    /\ SecondRunEnded /\ pc = "done"
    /\ out # prev
    /\ Len(out) >= 10

\* C10: with every pulled record emitted before the next is pulled, no
\* entity gets the same record twice in one invocation, and a second
\* invocation that runs to its end yields the five data-product records
\* and nothing else.
C10_CreateOnce ==
    /\ \A a, b \in 1..Len(Yielded) :
          (a # b /\ StepOf(Yielded[a]) \in {"domain", "dataset", "term"}) =>
              Targets(Yielded)[a] # Targets(Yielded)[b]
    /\ (run = 2 /\ pc = "done") =>
          /\ [k \in 1..Len(out) |-> out[k].aspect] =
                <<"dataProductProperties", "domains", "ownership", "status",
                  "esDataProductSchema">>
          /\ \A k \in 1..Len(out) : out[k].urn[1] = "dataProduct"

C10_Witness ==
    /\ run = 2 /\ pc = "done"
    /\ NumPorts = 2 /\ dp.outputPorts[1] = dp.outputPorts[2]
    /\ NumProps = 2 /\ TermUrnOfKey(1) = TermUrnOfKey(2)
    /\ Len(prev) = 10
    /\ Len(out) = 5

====
